---- MODULE Spec2Model ----
(***************************************************************************)
(* A model of ouch's extension handling (src/extension.rs) and of its      *)
(* filesystem helpers (src/utils/fs.rs).                                   *)
(*                                                                         *)
(* Strings are TLA+ strings, read character by character with SubSeq, so   *)
(* that splitting, trimming, joining and set_extension are computed on the *)
(* text as the code computes them.  An Option is a sequence of length 0    *)
(* (None) or 1 (Some).                                                     *)
(***************************************************************************)
EXTENDS Integers, Sequences, FiniteSets, TLC

\* ------------------------------------------------------------------------
\* Bounds of the model
\* ------------------------------------------------------------------------

\* Largest number of dot-separated segments of a generated file name.
MaxSegs == 4

\* Largest number of non-empty segments of a generated --format text.
MaxFlagTokens == 2

\* Longest run of dots before, between and after them.
MaxDots == 2

\* Longest run of incrementally named files next to the target path.
MaxRun == 5

VARIABLES
    \* separate_known_extensions_from_name
    sk_pc,          \* position in the function
    sk_path,        \* the argument
    sk_name,        \* the working name
    sk_extensions,  \* the chain being built
    sk_warned,      \* whether warning(..) was called
    sk_ret,         \* the value returned
    \* parse_format_flag
    pf_pc,          \* position in the function
    pf_input,       \* the argument
    pf_rest,        \* what the split('.') iterator has yet to yield
    pf_extensions,  \* the extensions collected so far
    pf_ret,         \* the value returned
    \* resolve_path_conflict and rename_for_available_filename
    fs_pc,            \* position in the call
    fs_entry,         \* the function that was called
    fs_files,         \* the filesystem: the set of <<path, kind>> that exist
    fs_before,        \* the filesystem when the call was made
    fs_path,          \* the argument
    fs_decision,      \* what user_wants_to_overwrite answered
    fs_arg,           \* the argument of the last rename_or_increment_filename
    fs_renamed_path,  \* rename_for_available_filename::renamed_path
    fs_new_filename,  \* rename_or_increment_filename::new_filename, last call
    fs_ret,           \* the value returned
    overflow_checks,  \* whether the build panics on integer overflow
    \* build_archive_file_suggestion
    bs_pc,                   \* position in the function
    bs_path,                 \* the argument path, as text
    bs_suggested_extension,  \* the argument suggested_extension
    bs_rest,                 \* the text not yet walked through
    bs_position_to_insert,   \* bytes of the path walked through
    bs_ret,                  \* the value returned
    \* try_infer_extension
    ti_pc,    \* position in the function
    ti_file,  \* the file at the path: whether it opens and reads, its bytes
    ti_buf,   \* the buffer the signatures are tested on
    ti_ret    \* the value returned

skVars == <<sk_pc, sk_path, sk_name, sk_extensions, sk_warned, sk_ret>>

pfVars == <<pf_pc, pf_input, pf_rest, pf_extensions, pf_ret>>

fsVars == <<fs_pc, fs_entry, fs_files, fs_before, fs_path, fs_decision, fs_arg,
           fs_renamed_path, fs_new_filename, fs_ret, overflow_checks>>

bsVars == <<bs_pc, bs_path, bs_suggested_extension, bs_rest,
           bs_position_to_insert, bs_ret>>

tiVars == <<ti_pc, ti_file, ti_buf, ti_ret>>

vars == <<skVars, pfVars, fsVars, bsVars, tiVars>>

\* A function of the program that is not being called: its state is at rest.
SkOff ==
    /\ sk_pc = "off" /\ sk_path = "" /\ sk_name = "" /\ sk_extensions = <<>>
    /\ sk_warned = FALSE /\ sk_ret = <<"Pending">>

PfOff ==
    /\ pf_pc = "off" /\ pf_input = "" /\ pf_rest = <<>> /\ pf_extensions = <<>>
    /\ pf_ret = <<"Pending">>

FsOff ==
    /\ fs_pc = "off" /\ fs_entry = "" /\ fs_files = {} /\ fs_before = {}
    /\ fs_path = "" /\ fs_decision = "" /\ fs_arg = "" /\ fs_renamed_path = ""
    /\ fs_new_filename = ""
    /\ fs_ret = <<"Pending">> /\ overflow_checks = FALSE

BsOff ==
    /\ bs_pc = "off" /\ bs_path = "" /\ bs_suggested_extension = ""
    /\ bs_rest = "" /\ bs_position_to_insert = 0 /\ bs_ret = <<"Pending">>

TiOff ==
    /\ ti_pc = "off" /\ ti_file = <<>> /\ ti_buf = <<>> /\ ti_ret = <<"Pending">>

\* ------------------------------------------------------------------------
\* Text helpers (Rust's str / [u8] / bstr operations the code calls)
\* ------------------------------------------------------------------------

None == <<>>

Some(x) == <<x>>

Char(s, i) == SubSeq(s, i, i)

SetMin(S) == CHOOSE x \in S : \A y \in S : x <= y

SetMax(S) == CHOOSE x \in S : \A y \in S : x >= y

\* str::find(c): the index (from 1) of the first c in s, 0 when there is none.
find(s, c) ==
    LET I == {i \in 1..Len(s) : Char(s, i) = c}
    IN  IF I = {} THEN 0 ELSE SetMin(I)

\* str::rfind(c): the index (from 1) of the last c in s, 0 when there is none.
rfind(s, c) ==
    LET I == {i \in 1..Len(s) : Char(s, i) = c}
    IN  IF I = {} THEN 0 ELSE SetMax(I)

\* rsplit_once(c): None, or Some(<<text before the last c, text after it>>).
rsplit_once(s, c) ==
    LET i == rfind(s, c)
    IN  IF i = 0 THEN None
        ELSE Some(<<SubSeq(s, 1, i - 1), SubSeq(s, i + 1, Len(s))>>)

\* str::split(c), as the sequence of the pieces (never empty: "" gives <<"">>).
RECURSIVE split(_, _)
split(s, c) ==
    LET i == find(s, c)
    IN  IF i = 0 THEN <<s>>
        ELSE <<SubSeq(s, 1, i - 1)>> \o split(SubSeq(s, i + 1, Len(s)), c)

\* str::trim_matches(c): s without its leading and trailing run of c.
RECURSIVE trim_matches(_, _)
trim_matches(s, c) ==
    IF Len(s) > 0 /\ Char(s, 1) = c THEN trim_matches(SubSeq(s, 2, Len(s)), c)
    ELSE IF Len(s) > 0 /\ Char(s, Len(s)) = c
         THEN trim_matches(SubSeq(s, 1, Len(s) - 1), c)
         ELSE s

\* ------------------------------------------------------------------------
\* std::path::Path on "/"-separated text
\* ------------------------------------------------------------------------

\* Path::file_name: the last component when it is a normal one; None for a
\* path that ends in "..", for "." and for the empty and the root path.  A
\* trailing "/" or "/." is skipped, as Path::components skips it.
RECURSIVE file_name(_)
file_name(path) ==
    LET i == rfind(path, "/")
        last == SubSeq(path, i + 1, Len(path))
    IN  IF last = ".." THEN None
        ELSE IF last \in {"", "."}
             THEN IF i = 0 THEN None ELSE file_name(SubSeq(path, 1, i - 1))
             ELSE Some(last)

\* Where the file name of path ends in its text, 0 when it has none.
RECURSIVE file_name_end(_)
file_name_end(path) ==
    LET i == rfind(path, "/")
        last == SubSeq(path, i + 1, Len(path))
    IN  IF last = ".." THEN 0
        ELSE IF last \in {"", "."}
             THEN IF i = 0 THEN 0 ELSE file_name_end(SubSeq(path, 1, i - 1))
             ELSE Len(path)

\* std's rsplit_file_at_dot: <<before, after>>, each an Option.
rsplit_file_at_dot(file) ==
    IF file = ".." THEN <<Some(file), None>>
    ELSE LET i == rfind(file, ".")
         IN  IF i = 0 THEN <<None, Some(file)>>
             ELSE IF i = 1 THEN <<Some(file), None>>
             ELSE <<Some(SubSeq(file, 1, i - 1)), Some(SubSeq(file, i + 1, Len(file)))>>

\* Path::file_stem: before.or(after)
file_stem(path) ==
    IF file_name(path) = None THEN None
    ELSE LET s == rsplit_file_at_dot(file_name(path)[1])
         IN  IF s[1] # None THEN s[1] ELSE s[2]

\* Path::extension: before.and(after)
path_extension(path) ==
    IF file_name(path) = None THEN None
    ELSE LET s == rsplit_file_at_dot(file_name(path)[1])
         IN  IF s[1] # None THEN s[2] ELSE None

\* Path::parent, for a path without a trailing separator.
path_parent(path) ==
    LET i == rfind(path, "/")
    IN  IF path \in {"", "/"} THEN None
        ELSE IF i = 0 THEN Some("")
        ELSE IF i = 1 THEN Some("/")
        ELSE Some(SubSeq(path, 1, i - 1))

unwrap_or(option, default) == IF option = None THEN default ELSE option[1]

\* Path::join
join(base, path) ==
    IF Len(path) > 0 /\ Char(path, 1) = "/" THEN path
    ELSE IF base = "" THEN path
    ELSE IF Char(base, Len(base)) = "/" THEN base \o path
    ELSE base \o "/" \o path

\* PathBuf::set_extension: the text is cut right after the file stem, and
\* "." and the new extension are put there.
set_extension(path, ext) ==
    IF file_stem(path) = None THEN path
    ELSE LET end_file_stem ==
                 file_name_end(path) - Len(file_name(path)[1]) + Len(file_stem(path)[1])
         IN  SubSeq(path, 1, end_file_stem)
                 \o (IF ext = "" THEN "" ELSE "." \o ext)

\* ------------------------------------------------------------------------
\* u32, held as its decimal numeral (TLC has no integer as large as 2^32 - 1)
\* ------------------------------------------------------------------------

Digits == "0123456789"

U32_MAX == "4294967295"

\* char::is_numeric, on the ASCII characters of the model
is_numeric(c) == find(Digits, c) # 0

DigitValue(c) == find(Digits, c) - 1

\* The numeral without its leading zeros.
RECURSIVE Canonical(_)
Canonical(ds) ==
    IF Len(ds) > 1 /\ Char(ds, 1) = "0" THEN Canonical(SubSeq(ds, 2, Len(ds)))
    ELSE ds

\* a > b, for canonical numerals
NumeralGreater(a, b) ==
    \/ Len(a) > Len(b)
    \/ /\ Len(a) = Len(b)
       /\ \E i \in 1..Len(a) :
             /\ DigitValue(Char(a, i)) > DigitValue(Char(b, i))
             /\ \A j \in 1..(i - 1) : Char(a, j) = Char(b, j)

\* str::parse::<u32>() of a text of numeric characters: None for the empty
\* text and for a value above u32::MAX.
parse_u32(number_str) ==
    IF number_str = "" THEN None
    ELSE IF NumeralGreater(Canonical(number_str), U32_MAX) THEN None
    ELSE Some(Canonical(number_str))

\* The numeral of n + 1, without a width.
RECURSIVE NumeralSucc(_)
NumeralSucc(n) ==
    IF n = "" THEN "1"
    ELSE LET d == DigitValue(Char(n, Len(n)))
             front == SubSeq(n, 1, Len(n) - 1)
         IN  IF d < 9 THEN front \o Char(Digits, d + 2)
             ELSE NumeralSucc(front) \o "0"

\* number + 1 in a build without overflow checks: it wraps at 2^32.
wrapping_add_1(number) == IF number = U32_MAX THEN "0" ELSE NumeralSucc(number)

\* ------------------------------------------------------------------------
\* The format catalog
\* ------------------------------------------------------------------------

SUPPORTED_EXTENSIONS ==
    {"tar", "zip", "bz", "bz2", "gz", "lz4", "xz", "lzma", "lz", "sz", "zst",
     "rar", "7z", "br"}

SUPPORTED_ALIASES == {"tgz", "tbz", "tlz4", "txz", "tlzma", "tsz", "tzst", "tlz"}

CompressionFormat ==
    {"Gzip", "Bzip", "Bzip3", "Lz4", "Xz", "Lzma", "Lzip", "Snappy", "Tar",
     "Zstd", "Zip", "Rar", "SevenZip", "Brotli"}

archive_format(format) ==
    CASE format \in {"Tar", "Zip", "Rar", "SevenZip"} -> TRUE
      [] format \in {"Bzip", "Bzip3", "Lz4", "Lzma", "Xz", "Lzip", "Snappy",
                     "Zstd", "Brotli", "Gzip"} -> FALSE

\* Extension::new
Extension(formats, text) ==
    [compression_formats |-> formats, display_text |-> text]

\* Extension::is_archive
is_archive(extension) == archive_format(extension.compression_formats[1])

to_extension(ext) ==
    CASE ext = "tar" -> Some(Extension(<<"Tar">>, ext))
      [] ext = "tgz" -> Some(Extension(<<"Tar", "Gzip">>, ext))
      [] ext \in {"tbz", "tbz2"} -> Some(Extension(<<"Tar", "Bzip">>, ext))
      [] ext = "tbz3" -> Some(Extension(<<"Tar", "Bzip3">>, ext))
      [] ext = "tlz4" -> Some(Extension(<<"Tar", "Lz4">>, ext))
      [] ext = "txz" -> Some(Extension(<<"Tar", "Xz">>, ext))
      [] ext = "tlzma" -> Some(Extension(<<"Tar", "Lzma">>, ext))
      [] ext = "tlz" -> Some(Extension(<<"Tar", "Lzip">>, ext))
      [] ext = "tsz" -> Some(Extension(<<"Tar", "Snappy">>, ext))
      [] ext = "tzst" -> Some(Extension(<<"Tar", "Zstd">>, ext))
      [] ext = "zip" -> Some(Extension(<<"Zip">>, ext))
      [] ext \in {"bz", "bz2"} -> Some(Extension(<<"Bzip">>, ext))
      [] ext = "bz3" -> Some(Extension(<<"Bzip3">>, ext))
      [] ext = "gz" -> Some(Extension(<<"Gzip">>, ext))
      [] ext = "lz4" -> Some(Extension(<<"Lz4">>, ext))
      [] ext = "xz" -> Some(Extension(<<"Xz">>, ext))
      [] ext = "lzma" -> Some(Extension(<<"Lzma">>, ext))
      [] ext = "lz" -> Some(Extension(<<"Lzip">>, ext))
      [] ext = "sz" -> Some(Extension(<<"Snappy">>, ext))
      [] ext = "zst" -> Some(Extension(<<"Zstd">>, ext))
      [] ext = "rar" -> Some(Extension(<<"Rar">>, ext))
      [] ext = "7z" -> Some(Extension(<<"SevenZip">>, ext))
      [] ext = "br" -> Some(Extension(<<"Brotli">>, ext))
      [] OTHER -> None

\* split_extension_at_end without its test of the text before the dot.
split_extension_at_end_unguarded(name) ==
    LET s == rsplit_once(name, ".")
    IN  IF s = None THEN None
        ELSE LET e == to_extension(s[1][2])
             IN  IF e = None THEN None ELSE Some(<<s[1][1], e[1]>>)

\* split_extension_at_end with matches!(new_name, b"") only: "." and ".." are
\* not refused as the text before the dot.
split_extension_at_end_empty_only(name) ==
    LET s == rsplit_once(name, ".")
    IN  IF s = None THEN None
        ELSE IF s[1][1] = "" THEN None
        ELSE LET e == to_extension(s[1][2])
             IN  IF e = None THEN None ELSE Some(<<s[1][1], e[1]>>)

\* None, or Some(<<new_name, extension>>).
split_extension_at_end(name) ==
    LET s == rsplit_once(name, ".")
    IN  IF s = None THEN None
        ELSE IF s[1][1] \in {"", ".", ".."} THEN None
        ELSE LET e == to_extension(s[1][2])
             IN  IF e = None THEN None ELSE Some(<<s[1][1], e[1]>>)

RECURSIVE flatten_compression_formats(_)
flatten_compression_formats(extensions) ==
    IF extensions = <<>> THEN <<>>
    ELSE Head(extensions).compression_formats
             \o flatten_compression_formats(Tail(extensions))

\* The text of the pieces joined by sep (the inverse of split).
RECURSIVE Join(_, _)
Join(pieces, sep) ==
    IF Len(pieces) = 0 THEN ""
    ELSE IF Len(pieces) = 1 THEN pieces[1]
    ELSE pieces[1] \o sep \o Join(Tail(pieces), sep)

\* ------------------------------------------------------------------------
\* separate_known_extensions_from_name
\* ------------------------------------------------------------------------

\* Segments the generated names are made of: an unrecognized word, the empty
\* segment (leading, doubled and trailing dots), archive and non-archive
\* extensions and an alias.
SkWords == {"", "file", "tar", "zip", "gz", "tgz"}

\* Directory prefixes of the generated paths.
SkParents == {"", "a.tar/"}

SkNames ==
    {Join(segs, ".") : segs \in UNION {[1..n -> SkWords] : n \in 1..MaxSegs}}

SkPaths == {parent \o n : parent \in SkParents, n \in SkNames}

Pending == <<"Pending">>

Ok(v) == <<"Ok", v>>

Err(e) == <<"Err", e>>

\* The value of a function that returns no Result.
Returned(v) == <<"Returned", v>>

SkIdle == UNCHANGED <<pfVars, fsVars, bsVars, tiVars>>

SkInit ==
    /\ PfOff
    /\ FsOff
    /\ BsOff
    /\ TiOff
    /\ sk_pc = "file_name"
    /\ sk_path \in SkPaths
    /\ sk_name = ""
    /\ sk_extensions = <<>>
    /\ sk_warned = FALSE
    /\ sk_ret = Pending

\* let Some(mut name) = path.file_name()... else { return Ok((path, extensions)) }
sk_file_name ==
    /\ sk_pc = "file_name"
    /\ IF file_name(sk_path) = None
       THEN /\ sk_ret' = Ok(<<sk_path, sk_extensions>>)
            /\ sk_pc' = "done"
            /\ UNCHANGED sk_name
       ELSE /\ sk_name' = file_name(sk_path)[1]
            /\ sk_pc' = "loop"
            /\ UNCHANGED sk_ret
    /\ UNCHANGED <<sk_path, sk_extensions, sk_warned>>
    /\ SkIdle

\* sk_loop without the archive test: it goes on peeling after an archive
\* extension.
sk_loop_no_archive_test ==
    /\ sk_pc = "loop"
    /\ LET s == split_extension_at_end(sk_name)
       IN  IF s = None
           THEN /\ sk_pc' = "after_loop"
                /\ UNCHANGED <<sk_name, sk_extensions>>
           ELSE /\ sk_name' = s[1][1]
                /\ sk_extensions' = <<s[1][2]>> \o sk_extensions
                /\ sk_pc' = "loop"
    /\ UNCHANGED <<sk_path, sk_warned, sk_ret>>
    /\ SkIdle

\* sk_loop with extensions.push(extension) in place of insert(0, extension).
sk_loop_push ==
    /\ sk_pc = "loop"
    /\ LET s == split_extension_at_end(sk_name)
       IN  IF s = None
           THEN /\ sk_pc' = "after_loop"
                /\ UNCHANGED <<sk_name, sk_extensions, sk_ret>>
           ELSE LET new_name == s[1][1]
                    new_extensions == sk_extensions \o <<s[1][2]>>
                IN  /\ sk_name' = new_name
                    /\ sk_extensions' = new_extensions
                    /\ IF is_archive(s[1][2])
                       THEN IF split_extension_at_end(new_name) # None
                            THEN /\ sk_ret' = Err("File extensions are invalid for operation")
                                 /\ sk_pc' = "done"
                            ELSE /\ sk_pc' = "after_loop"
                                 /\ UNCHANGED sk_ret
                       ELSE /\ sk_pc' = "loop"
                            /\ UNCHANGED sk_ret
    /\ UNCHANGED <<sk_path, sk_warned>>
    /\ SkIdle

\* One evaluation of the while-let condition and, when it matches, one pass of
\* the loop body.
sk_loop ==
    /\ sk_pc = "loop"
    /\ LET s == split_extension_at_end(sk_name)
       IN  IF s = None
           THEN /\ sk_pc' = "after_loop"
                /\ UNCHANGED <<sk_name, sk_extensions, sk_ret>>
           ELSE LET new_name == s[1][1]
                    new_extensions == <<s[1][2]>> \o sk_extensions
                IN  /\ sk_name' = new_name
                    /\ sk_extensions' = new_extensions
                    /\ IF is_archive(new_extensions[1])
                       THEN IF split_extension_at_end(new_name) # None
                            THEN /\ sk_ret' = Err("File extensions are invalid for operation")
                                 /\ sk_pc' = "done"
                            ELSE /\ sk_pc' = "after_loop"
                                 /\ UNCHANGED sk_ret
                       ELSE /\ sk_pc' = "loop"
                            /\ UNCHANGED sk_ret
    /\ UNCHANGED <<sk_path, sk_warned>>
    /\ SkIdle

\* The diagnostic after the loop, and the return.
sk_return ==
    /\ sk_pc = "after_loop"
    /\ LET stem == trim_matches(sk_name, ".")
       IN  sk_warned' = (stem \in SUPPORTED_EXTENSIONS \/ stem \in SUPPORTED_ALIASES)
    /\ sk_ret' = Ok(<<sk_name, sk_extensions>>)
    /\ sk_pc' = "done"
    /\ UNCHANGED <<sk_path, sk_name, sk_extensions>>
    /\ SkIdle

SkNext == sk_file_name \/ sk_loop \/ sk_return

SkSpec == SkInit /\ [][SkNext]_vars

\* The formats that hold several files.
ArchiveFormats == {"Tar", "Zip", "Rar", "SevenZip"}

SkOk == sk_pc = "done" /\ sk_ret[1] = "Ok"

SkStem == sk_ret[2][1]

SkChain == sk_ret[2][2]

\* C1: whenever separate_known_extensions_from_name returns Ok, the flattened
\* pipeline of the chain holds an archive format at most once and only as its
\* first format, and no Extension after the first of the chain is archive-type.
C1_ArchiveOnlyOutermost ==
    SkOk =>
        LET flat == flatten_compression_formats(SkChain)
        IN  /\ \A i \in 2..Len(flat) : flat[i] \notin ArchiveFormats
            /\ \A i \in 2..Len(SkChain) :
                   SkChain[i].compression_formats[1] \notin ArchiveFormats
            /\ Cardinality({i \in 1..Len(flat) : flat[i] \in ArchiveFormats}) <= 1

\* An Ok whose chain starts with an archive and goes on with compressors.
C1_Witness ==
    /\ SkOk
    /\ Len(SkChain) >= 3
    /\ SkChain[1].compression_formats = <<"Tar", "Gzip">>
    /\ flatten_compression_formats(SkChain)[1] \in ArchiveFormats

\* The final path component of the argument, cut at its dots.
SkSegs == split(file_name(sk_path)[1], ".")

\* Segment i is one the parser peels when it reaches it: a recognized token
\* whose text to its left is none of "", "." and "..".
SkPeelable(i) ==
    /\ i >= 2
    /\ to_extension(SkSegs[i]) # None
    /\ Join(SubSeq(SkSegs, 1, i - 1), ".") \notin {"", ".", ".."}

SkArchiveAt(i) == to_extension(SkSegs[i])[1].compression_formats[1] \in ArchiveFormats

\* The rightmost run of peelable tokens reaches an archive token that has a
\* peelable token directly to its left.
SkMisplaced ==
    /\ file_name(sk_path) # None
    /\ \E j \in 3..Len(SkSegs) :
          /\ SkPeelable(j) /\ SkArchiveAt(j)
          /\ SkPeelable(j - 1)
          /\ \A k \in (j + 1)..Len(SkSegs) : SkPeelable(k) /\ ~SkArchiveAt(k)

\* C2: separate_known_extensions_from_name returns Err exactly when, peeling
\* recognized tokens from the right, an archive extension has been consumed
\* and the name left of it also ends in a recognized extension; every other
\* name gives Ok.
C2_ErrIffArchiveMisplaced ==
    sk_pc = "done" =>
        /\ sk_ret[1] \in {"Ok", "Err"}
        /\ (sk_ret[1] = "Err") <=> SkMisplaced

\* file.gz.zip.gz-like names are refused, after a compressor was peeled first.
C2_Witness ==
    /\ sk_pc = "done"
    /\ sk_ret[1] = "Err"
    /\ Len(sk_extensions) = 2
    /\ sk_path = "file.gz.zip.gz"

RECURSIVE ChainText(_)
ChainText(chain) ==
    IF chain = <<>> THEN ""
    ELSE "." \o Head(chain).display_text \o ChainText(Tail(chain))

\* C3: on Ok((stem, chain)) the final path component of the argument is the
\* stem followed by "." and the display text of each chain element in chain
\* order, and each element carries the formats the catalog gives its text; a
\* path without a final component comes back whole with an empty chain.
C3_ChainInFilenameOrder ==
    SkOk =>
        IF file_name(sk_path) = None
        THEN SkStem = sk_path /\ SkChain = <<>>
        ELSE /\ file_name(sk_path)[1] = SkStem \o ChainText(SkChain)
             /\ \A i \in 1..Len(SkChain) :
                   to_extension(SkChain[i].display_text) = Some(SkChain[i])

\* file.tar.gz gives stem file and chain [tar, gz].
C3_Witness ==
    /\ SkOk
    /\ sk_path = "file.tar.gz"
    /\ SkStem = "file"
    /\ SkChain = <<Extension(<<"Tar">>, "tar"), Extension(<<"Gzip">>, "gz")>>

\* The name has no dot, or the text before its last dot is "", "." or "..".
SkNothingToPeel(name) ==
    \/ rfind(name, ".") = 0
    \/ SubSeq(name, 1, rfind(name, ".") - 1) \in {"", ".", ".."}

\* C11: separate_known_extensions_from_name returns an empty chain and the
\* final path component unchanged as stem when that component has no dot or
\* the text before its last dot is "", "." or "..", and whenever the chain it
\* returns is not empty the stem it returns is none of "", "." and "..".
C11_NeverStripsToDots ==
    SkOk =>
        /\ (file_name(sk_path) # None /\ SkNothingToPeel(file_name(sk_path)[1])) =>
               SkChain = <<>> /\ SkStem = file_name(sk_path)[1]
        /\ SkChain # <<>> => SkStem \notin {"", ".", ".."}

\* .tar.gz gives stem .tar and chain [gz]: the gz was peeled, the tar was not.
C11_Witness ==
    /\ SkOk
    /\ sk_path = ".tar.gz"
    /\ SkStem = ".tar"
    /\ SkChain = <<Extension(<<"Gzip">>, "gz")>>

\* ------------------------------------------------------------------------
\* parse_format_flag
\* ------------------------------------------------------------------------

\* The character of the model that stands for a byte sequence that is not
\* UTF-8.
InvalidUtf8 == "?"

\* std::str::from_utf8(..).is_ok()
from_utf8_ok(bytes) == find(bytes, InvalidUtf8) = 0

\* Non-empty segments of the generated texts: extensions, an alias, an
\* unsupported word, a word with a path separator and one that is not UTF-8.
PfTokens == {"tar", "gz", "tgz", "unknown", "/tar", "?"}

RECURSIVE Dots(_)
Dots(n) == IF n = 0 THEN "" ELSE "." \o Dots(n - 1)

\* toks joined by the dot runs gaps[1], .., gaps[Len(toks) - 1].
RECURSIVE Dotted(_, _)
Dotted(toks, gaps) ==
    IF Len(toks) = 0 THEN ""
    ELSE IF Len(toks) = 1 THEN toks[1]
    ELSE toks[1] \o Dots(gaps[1]) \o Dotted(Tail(toks), Tail(gaps))

PfInputs ==
    {Dots(lead) \o Dotted(toks, gaps) \o Dots(trail) :
        lead \in 0..MaxDots, trail \in 0..MaxDots,
        toks \in UNION {[1..n -> PfTokens] : n \in 0..MaxFlagTokens},
        gaps \in [1..(MaxFlagTokens - 1) -> 1..MaxDots]}

InvalidFormatFlag(text, reason) ==
    <<"InvalidFormatFlag", text, reason>>

PfIdle == UNCHANGED <<skVars, fsVars, bsVars, tiVars>>

PfInit ==
    /\ SkOff
    /\ FsOff
    /\ BsOff
    /\ TiOff
    /\ pf_pc = "from_utf8"
    /\ pf_input \in PfInputs
    /\ pf_rest = <<>>
    /\ pf_extensions = <<>>
    /\ pf_ret = Pending

\* std::str::from_utf8(format).map_err(..)?, then format.split('.')
pf_from_utf8 ==
    /\ pf_pc = "from_utf8"
    /\ IF from_utf8_ok(pf_input)
       THEN /\ pf_rest' = split(pf_input, ".")
            /\ pf_pc' = "collect"
            /\ UNCHANGED pf_ret
       ELSE /\ pf_ret' = Err(InvalidFormatFlag(pf_input, "Invalid UTF-8."))
            /\ pf_pc' = "done"
            /\ UNCHANGED pf_rest
    /\ UNCHANGED <<pf_input, pf_extensions>>
    /\ PfIdle

\* pf_collect without the filter of empty segments.
pf_collect_no_filter ==
    /\ pf_pc = "collect"
    /\ IF pf_rest = <<>>
       THEN /\ pf_pc' = "check_empty"
            /\ UNCHANGED <<pf_rest, pf_extensions, pf_ret>>
       ELSE LET extension == Head(pf_rest)
            IN  /\ pf_rest' = Tail(pf_rest)
                /\ IF to_extension(extension) = None
                   THEN /\ pf_ret' = Err(InvalidFormatFlag(pf_input,
                                            "Unsupported extension '" \o extension \o "'"))
                        /\ pf_pc' = "done"
                        /\ UNCHANGED pf_extensions
                   ELSE /\ pf_extensions' = Append(pf_extensions, to_extension(extension)[1])
                        /\ UNCHANGED <<pf_pc, pf_ret>>
    /\ UNCHANGED pf_input
    /\ PfIdle

\* One segment through .filter(..).map(..).collect::<Result<_>>(): an empty
\* segment is dropped, an unmapped one ends the collection with its error.
pf_collect ==
    /\ pf_pc = "collect"
    /\ IF pf_rest = <<>>
       THEN /\ pf_pc' = "check_empty"
            /\ UNCHANGED <<pf_rest, pf_extensions, pf_ret>>
       ELSE LET extension == Head(pf_rest)
            IN  /\ pf_rest' = Tail(pf_rest)
                /\ IF extension = ""
                   THEN UNCHANGED <<pf_pc, pf_extensions, pf_ret>>
                   ELSE IF to_extension(extension) = None
                   THEN /\ pf_ret' = Err(InvalidFormatFlag(pf_input,
                                            "Unsupported extension '" \o extension \o "'"))
                        /\ pf_pc' = "done"
                        /\ UNCHANGED pf_extensions
                   ELSE /\ pf_extensions' = Append(pf_extensions, to_extension(extension)[1])
                        /\ UNCHANGED <<pf_pc, pf_ret>>
    /\ UNCHANGED pf_input
    /\ PfIdle

\* if extensions.is_empty() { return Err(..) }  Ok(extensions)
pf_return ==
    /\ pf_pc = "check_empty"
    /\ pf_ret' = IF pf_extensions = <<>>
                 THEN Err(InvalidFormatFlag(pf_input,
                              "Parsing got an empty list of extensions."))
                 ELSE Ok(pf_extensions)
    /\ pf_pc' = "done"
    /\ UNCHANGED <<pf_input, pf_rest, pf_extensions>>
    /\ PfIdle

PfNext == pf_from_utf8 \/ pf_collect \/ pf_return

PfSpec == PfInit /\ [][PfNext]_vars

\* The non-empty maximal dot-free pieces of text, left to right, found by
\* position in the text.
PfSegments(text) ==
    LET n == Len(text)
        IsDot(i) == i < 1 \/ i > n \/ Char(text, i) = "."
        Starts == {i \in 1..n : ~IsDot(i) /\ IsDot(i - 1)}
        EndOf(i) == SetMin({j \in i..n : IsDot(j + 1)})
        Nth[k \in 1..Cardinality(Starts)] ==
            IF k = 1 THEN SetMin(Starts)
            ELSE SetMin({i \in Starts : i > Nth[k - 1]})
    IN  [k \in 1..Cardinality(Starts) |-> SubSeq(text, Nth[k], EndOf(Nth[k]))]

\* C4: parse_format_flag succeeds exactly when the text has a non-empty
\* dot-separated segment and the catalog knows every non-empty segment; the
\* result is then the lookup of the non-empty segments from left to right,
\* whatever the dots around them (and whatever archive formats they name);
\* every other text gives an InvalidFormatFlag error.
C4_FlagIsLookupOfNonEmptySegments ==
    pf_pc = "done" =>
        LET segs == PfSegments(pf_input)
            good == Len(segs) >= 1 /\ \A i \in 1..Len(segs) : to_extension(segs[i]) # None
        IN  IF good
            THEN pf_ret = Ok([i \in 1..Len(segs) |-> to_extension(segs[i])[1]])
            ELSE pf_ret[1] = "Err" /\ pf_ret[2][1] = "InvalidFormatFlag"

\* "..tar..gz.." parses to [tar, gz]; so does an archive after a compressor.
C4_Witness ==
    /\ pf_pc = "done"
    /\ pf_input = "..tar..gz.."
    /\ pf_ret = Ok(<<Extension(<<"Tar">>, "tar"), Extension(<<"Gzip">>, "gz")>>)

\* ------------------------------------------------------------------------
\* resolve_path_conflict, remove_file_or_dir, rename_for_available_filename,
\* rename_or_increment_filename
\* ------------------------------------------------------------------------

\* Path::exists, Path::is_dir, Path::is_file on a filesystem
exists(files, path) == \E e \in files : e[1] = path

is_dir(files, path) == <<path, "dir">> \in files

is_file(files, path) == <<path, "file">> \in files

\* path lies below the directory dir
IsBelow(path, dir) ==
    /\ Len(path) > Len(dir) + 1
    /\ SubSeq(path, 1, Len(dir) + 1) = dir \o "/"

\* remove_file_or_dir that takes every entry whose text starts with path.
remove_file_or_dir_by_prefix(files, path) ==
    {e \in files :
        ~(Len(e[1]) >= Len(path) /\ SubSeq(e[1], 1, Len(path)) = path)}

\* The filesystem after a successful remove_file_or_dir(path): a directory
\* goes with all below it, a regular file goes, anything else stays.
remove_file_or_dir(files, path) ==
    IF is_dir(files, path)
    THEN {e \in files : e[1] # path /\ ~IsBelow(e[1], path)}
    ELSE IF is_file(files, path)
    THEN files \ {<<path, "file">>}
    ELSE files

\* The new file name of rename_or_increment_filename, number + 1 wrapping.
new_filename(filename) ==
    LET s == rsplit_once(filename, "_")
    IN  IF s # None /\ \A i \in 1..Len(s[1][2]) : is_numeric(Char(s[1][2], i))
        THEN LET base == s[1][1]
                 number == unwrap_or(parse_u32(s[1][2]), "0")
             IN  base \o "_" \o wrapping_add_1(number)
        ELSE filename \o "_1"

\* Whether number + 1 overflows in rename_or_increment_filename(path).
increment_overflows(path) ==
    LET filename == unwrap_or(file_stem(path), "")
        s == rsplit_once(filename, "_")
    IN  /\ s # None
        /\ \A i \in 1..Len(s[1][2]) : is_numeric(Char(s[1][2], i))
        /\ parse_u32(s[1][2]) = Some(U32_MAX)

rename_or_increment_filename(path) ==
    LET parent == unwrap_or(path_parent(path), "")
        filename == unwrap_or(file_stem(path), "")
        extension == unwrap_or(path_extension(path), "")
        new_path == join(parent, new_filename(filename))
    IN  IF extension # "" THEN set_extension(new_path, extension) ELSE new_path

FileConflitOperation == {"Cancel", "Overwrite", "Rename", "Merge"}

\* The paths the calls are made on.
FsTargets ==
    {"file.txt", "file_1.txt", "file.tar.gz", "dir/file_05", "file_",
     "file_4294967294", "file_99999999999", ".a.b", "a.", "dir/a_b.c"}

\* What can be at the target path when the call is made.
FsKinds == {"none", "file", "dir", "other"}

\* The first n results of the increment step applied over and over to path.
RECURSIVE FsRun(_, _)
FsRun(path, n) ==
    IF n = 0 THEN {}
    ELSE {rename_or_increment_filename(path)}
             \union FsRun(rename_or_increment_filename(path), n - 1)

FsInit ==
    /\ SkOff
    /\ PfOff
    /\ BsOff
    /\ TiOff
    /\ overflow_checks \in BOOLEAN
    /\ fs_entry \in {"resolve_path_conflict", "rename_for_available_filename"}
    /\ fs_pc = fs_entry
    /\ fs_path \in FsTargets
    /\ \E kind \in FsKinds, run \in SUBSET FsRun(fs_path, MaxRun), child \in BOOLEAN :
          /\ child => kind = "dir"
          /\ fs_files = (IF kind = "none" THEN {} ELSE {<<fs_path, kind>>})
                           \union {<<p, "file">> : p \in run \ {fs_path}}
                           \union (IF child THEN {<<fs_path \o "/a", "file">>} ELSE {})
    /\ fs_before = fs_files
    /\ fs_decision = ""
    /\ fs_arg = ""
    /\ fs_renamed_path = ""
    /\ fs_new_filename = ""
    /\ fs_ret = Pending

FsIdle == UNCHANGED <<skVars, pfVars, bsVars, tiVars>>

\* if path.exists() { .. } else { Ok(Some(path.to_path_buf())) }
rpc_exists ==
    /\ fs_pc = "resolve_path_conflict"
    /\ IF exists(fs_files, fs_path)
       THEN fs_pc' = "user_wants_to_overwrite" /\ UNCHANGED fs_ret
       ELSE fs_pc' = "done" /\ fs_ret' = Ok(Some(fs_path))
    /\ UNCHANGED <<fs_entry, fs_files, fs_before, fs_path, fs_decision, fs_arg,
                   fs_renamed_path, fs_new_filename, overflow_checks>>
    /\ FsIdle

\* match user_wants_to_overwrite(path, question_policy, question_action)? { .. }
\* The answer is the collaborator's; a removal that fails leaves the target
\* and may have taken some of what is below it.
rpc_match ==
    /\ fs_pc = "user_wants_to_overwrite"
    /\ \/ /\ fs_decision' = "Err"
          /\ fs_ret' = Err("user_wants_to_overwrite")
          /\ fs_pc' = "done"
          /\ UNCHANGED fs_files
       \/ /\ fs_decision' = "Cancel"
          /\ fs_ret' = Ok(None)
          /\ fs_pc' = "done"
          /\ UNCHANGED fs_files
       \/ /\ fs_decision' = "Overwrite"
          /\ fs_files' = remove_file_or_dir(fs_files, fs_path)
          /\ fs_ret' = Ok(Some(fs_path))
          /\ fs_pc' = "done"
       \/ /\ fs_decision' = "Overwrite"
          /\ is_dir(fs_files, fs_path) \/ is_file(fs_files, fs_path)
          /\ \E gone \in SUBSET (fs_files \ remove_file_or_dir(fs_files, fs_path)) :
                /\ \A e \in gone : e[1] # fs_path
                /\ fs_files' = fs_files \ gone
          /\ fs_ret' = Err("remove_file_or_dir")
          /\ fs_pc' = "done"
       \/ /\ fs_decision' = "Rename"
          /\ fs_pc' = "rename_for_available_filename"
          /\ UNCHANGED <<fs_files, fs_ret>>
       \/ /\ fs_decision' = "Merge"
          /\ fs_ret' = Ok(Some(fs_path))
          /\ fs_pc' = "done"
          /\ UNCHANGED fs_files
    /\ UNCHANGED <<fs_entry, fs_before, fs_path, fs_arg, fs_renamed_path,
                   fs_new_filename, overflow_checks>>
    /\ FsIdle

\* let mut renamed_path = rename_or_increment_filename(path);
rename_first ==
    /\ fs_pc = "rename_for_available_filename"
    /\ fs_arg' = fs_path
    /\ IF overflow_checks /\ increment_overflows(fs_path)
       THEN fs_pc' = "panic" /\ UNCHANGED <<fs_renamed_path, fs_new_filename>>
       ELSE /\ fs_new_filename' = new_filename(unwrap_or(file_stem(fs_path), ""))
            /\ fs_renamed_path' = rename_or_increment_filename(fs_path)
            /\ fs_pc' = "while"
    /\ UNCHANGED <<fs_entry, fs_files, fs_before, fs_path, fs_decision, fs_ret,
                   overflow_checks>>
    /\ FsIdle

\* while renamed_path.exists() { renamed_path = rename_or_increment_filename(
\* &renamed_path); }  renamed_path
rename_while ==
    /\ fs_pc = "while"
    /\ IF exists(fs_files, fs_renamed_path)
       THEN /\ fs_arg' = fs_renamed_path
            /\ IF overflow_checks /\ increment_overflows(fs_renamed_path)
               THEN fs_pc' = "panic" /\ UNCHANGED <<fs_renamed_path, fs_new_filename>>
               ELSE /\ fs_new_filename' =
                           new_filename(unwrap_or(file_stem(fs_renamed_path), ""))
                    /\ fs_renamed_path' = rename_or_increment_filename(fs_renamed_path)
                    /\ UNCHANGED fs_pc
            /\ UNCHANGED fs_ret
       ELSE /\ fs_ret' = IF fs_entry = "resolve_path_conflict"
                         THEN Ok(Some(fs_renamed_path))
                         ELSE Returned(fs_renamed_path)
            /\ fs_pc' = "done"
            /\ UNCHANGED <<fs_arg, fs_renamed_path, fs_new_filename>>
    /\ UNCHANGED <<fs_entry, fs_files, fs_before, fs_path, fs_decision,
                   overflow_checks>>
    /\ FsIdle

FsNext == rpc_exists \/ rpc_match \/ rename_first \/ rename_while

FsSpec == FsInit /\ [][FsNext]_vars

FsResolveDone == fs_pc = "done" /\ fs_entry = "resolve_path_conflict"

\* C5: whenever resolve_path_conflict returns Ok(Some(p)), nothing exists at
\* p, whatever the decision was and when there was no conflict.
C5_ReturnedPathIsFree ==
    (FsResolveDone /\ fs_ret[1] = "Ok" /\ fs_ret[2] # None)
        => ~exists(fs_files, fs_ret[2][1])

\* C6: resolve_path_conflict changes the filesystem only under Overwrite and
\* then only by deleting the target (a directory with what is below it);
\* without a conflict no decision is asked and the path comes back; Cancel
\* returns nothing, Rename another path, Merge the path itself, each with
\* the filesystem as it was.
C6_OnlyOverwriteChangesFilesystem ==
    fs_entry = "resolve_path_conflict" =>
        /\ fs_files # fs_before =>
              /\ fs_decision = "Overwrite"
              /\ fs_files \subseteq fs_before
              /\ \A e \in fs_before \ fs_files :
                    e[1] = fs_path \/ IsBelow(e[1], fs_path)
        /\ (fs_pc = "done" /\ ~exists(fs_before, fs_path)) =>
              fs_decision = "" /\ fs_ret = Ok(Some(fs_path))
        /\ (fs_pc = "done" /\ fs_decision = "Cancel") => fs_ret = Ok(None)
        /\ (fs_pc = "done" /\ fs_decision = "Rename") =>
              /\ fs_ret[1] = "Ok" /\ fs_ret[2] # None /\ fs_ret[2][1] # fs_path
        /\ (fs_pc = "done" /\ fs_decision = "Merge") => fs_ret = Ok(Some(fs_path))
        /\ (fs_pc = "done" /\ fs_decision = "Overwrite" /\ fs_ret[1] = "Ok") =>
              fs_ret = Ok(Some(fs_path))

\* Overwrite took a directory and the file below it, and left its neighbours.
C6_Witness ==
    /\ FsResolveDone
    /\ fs_decision = "Overwrite"
    /\ fs_before \ fs_files = {<<fs_path, "dir">>, <<fs_path \o "/a", "file">>}
    /\ fs_files # {}

\* C7: rename_for_available_filename returns, that is, it never ends without
\* having returned, and the path it returns does not exist.
C7_RenameReturnsFreePath ==
    fs_entry = "rename_for_available_filename" =>
        /\ fs_pc = "done" => ~exists(fs_files, fs_ret[2])
        /\ fs_pc # "panic"

\* The path the claimed increment step gives: the parent, the stem with its
\* numeric suffix incremented or _1 appended, and the extension put back.
ClaimedIncrement(path) ==
    join(unwrap_or(path_parent(path), ""),
         new_filename(unwrap_or(file_stem(path), ""))
             \o (IF path_extension(path) = None THEN ""
                 ELSE "." \o path_extension(path)[1]))

\* C8: one increment step keeps the parent directory, the extension and the
\* rest of the stem, also when the stem holds dots.
C8_IncrementKeepsStemAndExtension ==
    fs_pc = "while" => fs_renamed_path = ClaimedIncrement(fs_arg)

\* The new stem the claimed increment step gives, n + 1 taken in the integers:
\* after 4294967295 comes 4294967296.
ClaimedNewStem(stem) ==
    LET s == rsplit_once(stem, "_")
    IN  IF s # None /\ \A i \in 1..Len(s[1][2]) : is_numeric(Char(s[1][2], i))
        THEN IF parse_u32(s[1][2]) # None
             THEN s[1][1] \o "_" \o NumeralSucc(parse_u32(s[1][2])[1])
             ELSE s[1][1] \o "_1"
        ELSE stem \o "_1"

\* The stem the last increment step was made on.
FsStepStem == unwrap_or(file_stem(fs_arg), "")

\* C12: the increment step never panics, and the new stem it builds is the
\* old one with its "_" and digits replaced by "_" and n + 1 when the digits
\* parse as a u32 n, for every n up to 2^32 - 1, by "_1" when they do not
\* parse, and the old one with "_1" appended when it has no such suffix.
C12_IncrementSuffix ==
    /\ fs_pc # "panic"
    /\ (fs_pc \in {"while", "done"} /\ fs_new_filename # "") =>
           fs_new_filename = ClaimedNewStem(FsStepStem)

\* The same below the largest u32: what the increment step does keep.
IncrementBelowMaximum ==
    (fs_pc \in {"while", "done"} /\ fs_new_filename # ""
        /\ ~increment_overflows(fs_arg)) =>
            fs_new_filename = ClaimedNewStem(FsStepStem)

\* ------------------------------------------------------------------------
\* build_archive_file_suggestion
\* ------------------------------------------------------------------------

\* Segments of the generated paths: unsupported words, the empty segment,
\* extensions and aliases of the two lists, and tokens to_extension knows.
BsWords == {"linux", "pkg", "", "zst", "xz", "tgz", "bz3", "tbz2"}

BsPaths ==
    {Join(segs, ".") : segs \in UNION {[1..n -> BsWords] : n \in 1..MaxSegs}}

BsIdle == UNCHANGED <<skVars, pfVars, fsVars, tiVars>>

BsInit ==
    /\ SkOff
    /\ PfOff
    /\ FsOff
    /\ TiOff
    /\ bs_pc = "while"
    /\ bs_path \in BsPaths
    /\ bs_suggested_extension \in {".tar", ".zip"}
    /\ bs_rest = bs_path
    /\ bs_position_to_insert = 0
    /\ bs_ret = Pending

\* String::insert_str(idx, text), idx counted from 0
insert_str(string, idx, text) ==
    SubSeq(string, 1, idx) \o text \o SubSeq(string, idx + 1, Len(string))

\* One evaluation of while let Some(pos) = rest.find('.') and, when it
\* matches, one pass of the body; the return of None when it does not.
bs_while ==
    /\ bs_pc = "while"
    /\ IF find(bs_rest, ".") = 0
       THEN /\ bs_ret' = Returned(None)
            /\ bs_pc' = "done"
            /\ UNCHANGED <<bs_rest, bs_position_to_insert>>
       ELSE LET pos == find(bs_rest, ".") - 1
                rest == SubSeq(bs_rest, pos + 2, Len(bs_rest))
                position_to_insert == bs_position_to_insert + pos + 1
                idx == IF find(rest, ".") = 0 THEN Len(rest) ELSE find(rest, ".") - 1
                maybe_extension == SubSeq(rest, 1, idx)
            IN  /\ bs_rest' = rest
                /\ bs_position_to_insert' = position_to_insert
                /\ IF \/ maybe_extension \in SUPPORTED_EXTENSIONS
                      \/ maybe_extension \in SUPPORTED_ALIASES
                   THEN /\ bs_ret' = Returned(Some(insert_str(bs_path,
                                              position_to_insert - 1,
                                              bs_suggested_extension)))
                        /\ bs_pc' = "done"
                   ELSE UNCHANGED <<bs_ret, bs_pc>>
    /\ UNCHANGED <<bs_path, bs_suggested_extension>>
    /\ BsIdle

BsNext == bs_while

BsSpec == BsInit /\ [][BsNext]_vars

\* The dots of text whose following segment, up to the next dot or the end,
\* is a token the catalog lookup recognizes.
BsDotsBeforeKnown(text) ==
    {i \in 1..Len(text) :
        /\ Char(text, i) = "."
        /\ LET after == SubSeq(text, i + 1, Len(text))
               seg == IF find(after, ".") = 0 THEN after
                      ELSE SubSeq(after, 1, find(after, ".") - 1)
           IN  to_extension(seg) # None}

\* C9: build_archive_file_suggestion returns the path with archive_ext put
\* right before the first dot whose following segment is a token of the
\* catalog, and nothing exactly when the path has no such segment.
C9_SuggestionAtFirstKnownSegment ==
    bs_pc = "done" =>
        LET dots == BsDotsBeforeKnown(bs_path)
        IN  IF dots = {} THEN bs_ret = Returned(None)
            ELSE bs_ret = Returned(Some(SubSeq(bs_path, 1, SetMin(dots) - 1)
                                            \o bs_suggested_extension
                                            \o SubSeq(bs_path, SetMin(dots), Len(bs_path))))

\* ------------------------------------------------------------------------
\* try_infer_extension
\* ------------------------------------------------------------------------

\* let mut buf = [0; 270]
BufLen == 270

\* slice[from..=to], the indices counted from 0
Slice(buf, from, to) == SubSeq(buf, from + 1, to + 1)

starts_with(buf, prefix) ==
    Len(buf) >= Len(prefix) /\ SubSeq(buf, 1, Len(prefix)) = prefix

is_zip(buf) ==
    /\ Len(buf) >= 3
    /\ Slice(buf, 0, 1) = <<\H50, \H4B>>
    /\ \/ Slice(buf, 2, 3) = <<\H03, \H04>>
       \/ Slice(buf, 2, 3) = <<\H05, \H06>>
       \/ Slice(buf, 2, 3) = <<\H07, \H08>>

is_tar(buf) ==
    Len(buf) > 261 /\ Slice(buf, 257, 261) = <<\H75, \H73, \H74, \H61, \H72>>

is_gz(buf) == starts_with(buf, <<\H1F, \H8B, \H08>>)

is_bz2(buf) == starts_with(buf, <<\H42, \H5A, \H68>>)

\* b"BZ3v1"
is_bz3(buf) == starts_with(buf, <<\H42, \H5A, \H33, \H76, \H31>>)

is_lzma(buf) ==
    /\ Len(buf) >= 14
    /\ buf[0 + 1] = \H5D
    /\ (buf[12 + 1] = \H00 \/ buf[12 + 1] = \HFF)
    /\ buf[13 + 1] = \H00

is_xz(buf) == starts_with(buf, <<\HFD, \H37, \H7A, \H58, \H5A, \H00>>)

is_lzip(buf) == starts_with(buf, <<\H4C, \H5A, \H49, \H50>>)

is_lz4(buf) == starts_with(buf, <<\H04, \H22, \H4D, \H18>>)

is_sz(buf) ==
    starts_with(buf, <<\HFF, \H06, \H00, \H00, \H73, \H4E, \H61, \H50, \H70, \H59>>)

is_zst(buf) == starts_with(buf, <<\H28, \HB5, \H2F, \HFD>>)

is_rar(buf) ==
    /\ Len(buf) >= 7
    /\ starts_with(buf, <<\H52, \H61, \H72, \H21, \H1A, \H07>>)
    /\ \/ buf[6 + 1] = \H00
       \/ (Len(buf) >= 8 /\ Slice(buf, 6, 7) = <<\H01, \H00>>)

is_sevenz(buf) == starts_with(buf, <<\H37, \H7A, \HBC, \HAF, \H27, \H1C>>)

\* The if / else if chain at the end of try_infer_extension.
infer(buf) ==
    IF is_zip(buf) THEN Some(Extension(<<"Zip">>, "zip"))
    ELSE IF is_tar(buf) THEN Some(Extension(<<"Tar">>, "tar"))
    ELSE IF is_gz(buf) THEN Some(Extension(<<"Gzip">>, "gz"))
    ELSE IF is_bz2(buf) THEN Some(Extension(<<"Bzip">>, "bz2"))
    ELSE IF is_bz3(buf) THEN Some(Extension(<<"Bzip3">>, "bz3"))
    ELSE IF is_lzma(buf) THEN Some(Extension(<<"Lzma">>, "lzma"))
    ELSE IF is_xz(buf) THEN Some(Extension(<<"Xz">>, "xz"))
    ELSE IF is_lzip(buf) THEN Some(Extension(<<"Lzip">>, "lzip"))
    ELSE IF is_lz4(buf) THEN Some(Extension(<<"Lz4">>, "lz4"))
    ELSE IF is_sz(buf) THEN Some(Extension(<<"Snappy">>, "sz"))
    ELSE IF is_zst(buf) THEN Some(Extension(<<"Zstd">>, "zst"))
    ELSE IF is_rar(buf) THEN Some(Extension(<<"Rar">>, "rar"))
    ELSE IF is_sevenz(buf) THEN Some(Extension(<<"SevenZip">>, "7z"))
    ELSE None

\* Longest of the short generated files (longer ones have chosen lengths).
MaxShort == 8

\* Starts of the generated files: the signatures of the table.
TiHeads ==
    {<<\H50, \H4B, \H03, \H04>>, <<\H50, \H4B, \H05, \H06>>,
     <<\H1F, \H8B, \H08>>, <<\H42, \H5A, \H68>>,
     <<\H42, \H5A, \H33, \H76, \H31>>, <<\H5D>>,
     <<\HFD, \H37, \H7A, \H58, \H5A, \H00>>, <<\H4C, \H5A, \H49, \H50>>,
     <<\H04, \H22, \H4D, \H18>>,
     <<\HFF, \H06, \H00, \H00, \H73, \H4E, \H61, \H50, \H70, \H59>>,
     <<\H28, \HB5, \H2F, \HFD>>,
     <<\H52, \H61, \H72, \H21, \H1A, \H07, \H00>>,
     <<\H52, \H61, \H72, \H21, \H1A, \H07, \H01, \H00>>,
     <<\H37, \H7A, \HBC, \HAF, \H27, \H1C>>, <<>>}

\* Lengths of the generated files: the short ones, and those around the
\* lengths the signatures and the buffer name.
TiLengths == (0..MaxShort) \union {13, 14, 261, 262, 270, 271}

\* A file of len bytes: head, then fill, with "ustar" at offset 257 if asked.
TiBytes(head, len, fill, ustar) ==
    [i \in 1..len |->
        IF i <= Len(head) THEN head[i]
        ELSE IF ustar /\ i \in 258..262
             THEN <<\H75, \H73, \H74, \H61, \H72>>[i - 257]
             ELSE fill]

TiIdle == UNCHANGED <<skVars, pfVars, fsVars, bsVars>>

TiInit ==
    /\ SkOff
    /\ PfOff
    /\ FsOff
    /\ BsOff
    /\ ti_pc = "open"
    /\ \E head \in TiHeads, len \in TiLengths, fill \in {\H00, \H01, \HFF},
          ustar \in BOOLEAN, opens \in BOOLEAN, reads \in BOOLEAN :
          ti_file = [opens |-> opens, reads |-> reads,
                     bytes |-> TiBytes(head, len, fill, ustar)]
    /\ ti_buf = <<>>
    /\ ti_ret = Pending

\* The block that makes buf: a failed open returns None; a read fills the
\* start of the 270 zeroed bytes, and its result is not looked at.
ti_read ==
    /\ ti_pc = "open"
    /\ IF ~ti_file.opens
       THEN /\ ti_ret' = Returned(None)
            /\ ti_pc' = "done"
            /\ UNCHANGED ti_buf
       ELSE /\ ti_buf' = [i \in 1..BufLen |->
                              IF ti_file.reads /\ i <= Len(ti_file.bytes)
                              THEN ti_file.bytes[i] ELSE 0]
            /\ ti_pc' = "infer"
            /\ UNCHANGED ti_ret
    /\ UNCHANGED ti_file
    /\ TiIdle

ti_infer ==
    /\ ti_pc = "infer"
    /\ ti_ret' = Returned(infer(ti_buf))
    /\ ti_pc' = "done"
    /\ UNCHANGED <<ti_file, ti_buf>>
    /\ TiIdle

TiNext == ti_read \/ ti_infer

TiSpec == TiInit /\ [][TiNext]_vars

\* C10: try_infer_extension tests each signature on the bytes read from the
\* file only: a file of fewer than 14 bytes is never Lzma, one of fewer than
\* 7 never Rar, one of 261 or fewer never Tar, and a file that does not open
\* or read gives nothing.
C10_SignaturesOnBytesRead ==
    ti_pc = "done" =>
        /\ (~ti_file.opens \/ ~ti_file.reads) => ti_ret = Returned(None)
        /\ Len(ti_file.bytes) < 14 =>
              ti_ret # Returned(Some(Extension(<<"Lzma">>, "lzma")))
        /\ Len(ti_file.bytes) < 7 =>
              ti_ret # Returned(Some(Extension(<<"Rar">>, "rar")))
        /\ Len(ti_file.bytes) <= 261 =>
              ti_ret # Returned(Some(Extension(<<"Tar">>, "tar")))

====
